---- MODULE Spec2Model ----
(***************************************************************************)
(* Session store (AuthProvider), HTTP wrapper (lib/axios) and cart store   *)
(* (CartProvider) of the storefront, with the backend as a collaborator    *)
(* that serves requests one at a time in any order.                        *)
(***************************************************************************)
EXTENDS Integers, FiniteSets, Sequences, TLC

\* ---------------------------------------------------------------- bounds
MaxInFlight == 2
MaxQty == 2
MaxTicks == 2
MaxOps == 3
NumProducts == 1
NumTokens == 2

\* ------------------------------------------------------ program constants
DebounceMs == 500

HalfWindow == DebounceMs \div 2
StartNow == DebounceMs
MaxNow == StartNow + MaxTicks * HalfWindow

NoToken == 0
NoUser == 0
Tokens == 1..NumTokens
Products == 1..NumProducts
Slots == 1..MaxInFlight

EmptyCart == [p \in Products |-> 0]
NoPre == <<NoToken, NoUser, FALSE>>

VARIABLES
  token,            \* localStorage 'token'
  user,             \* AuthProvider user
  isAuthenticated,  \* AuthProvider isAuthenticated
  authLoading,      \* AuthProvider isLoading
  authChecked,      \* AuthProvider authChecked
  mounted,          \* the mount effect of AuthProvider has run
  isRefreshing,     \* lib/axios re-entrancy guard
  redirectTimers,   \* pending setTimeout callbacks of the interceptor
  removals401,      \* token removals by the interceptor since page load
  expiredToasts,    \* session-expired notifications since page load
  rejected401,      \* 401 responses the interceptor saw on guarded endpoints since page load
  cartItems,        \* CartProvider cartItems (quantity per product)
  cartTotal,        \* CartProvider cartTotal
  cartLoading,      \* CartProvider isLoading
  isFetching,       \* isFetchingRef.current
  lastFetchTime,    \* lastFetchTimeRef.current
  cartInitialized,  \* cartInitializedRef.current
  backendCart,      \* the backend's cart
  net,              \* requests in flight
  now,              \* Date.now()
  ops,              \* user operations started so far
  cartFault,        \* something other than a successful add/remove/update touched the cart
  ev                \* what the last step did

authVars == <<user, isAuthenticated, authLoading, authChecked>>
guardVars == <<isRefreshing, redirectTimers, removals401, expiredToasts, rejected401>>
cartVars == <<cartItems, cartTotal, cartLoading, isFetching, lastFetchTime,
              cartInitialized>>
vars == <<token, user, isAuthenticated, authLoading, authChecked, mounted,
          isRefreshing, redirectTimers, removals401, expiredToasts, rejected401,
          cartItems, cartTotal, cartLoading, isFetching, lastFetchTime,
          cartInitialized, backendCart, net, now, cartFault, ops, ev>>

\* A user operation starts: the model follows at most MaxOps of them.
UserOp == ops < MaxOps /\ ops' = ops + 1

\* The steps the properties look at; any other step is recorded as "-".
Observed == {"init", "LoginToken", "LoginTrue", "LoginFalse", "LoginNoToken", "LoginRejected",
             "LoginUnauthorized", "AddOk", "RemoveOk", "UpdateOk", "FetchOk", "FetchFail",
             "FetchCartPage", "CheckoutFail", "PageFail", "MeOk", "MeFail",
             "Mount", "ProfileSaved", "Logout",
             "AddNoAuth", "RemoveNoAuth", "UpdateNoAuth", "ClearNoAuth", "UpdateBelowOne",
             "UpdateRetry", "AddFail", "RemoveFail", "UpdateFail", "ClearOk", "ClearFail",
             "CheckoutOk"}

\* The notification (toast) the handler branch named op raises.
Toast(op) ==
  CASE op \in {"LoginTrue", "Logout", "AddOk", "RemoveOk", "ClearOk", "CheckoutOk"} -> "success"
    [] op \in {"LoginFalse", "LoginNoToken", "LoginRejected", "LoginUnauthorized",
               "AddNoAuth", "AddFail", "RemoveFail", "UpdateFail", "ClearFail",
               "CheckoutFail"} -> "error"
    [] OTHER -> "none"

\* The navigation the handler branch named op (or the component that called
\* it) emits.
Nav(op) ==
  CASE op \in {"Logout", "LoginTrue"} -> "/"
    [] op = "CheckoutOk" -> "/checkout-success"
    [] OTHER -> "none"

Ev(op, fetch, pre) ==
  IF op \in Observed
  THEN [op |-> op, fetch |-> fetch, pre |-> pre, toast |-> Toast(op), nav |-> Nav(op)]
  ELSE [op |-> "-", fetch |-> fetch, pre |-> pre, toast |-> "-", nav |-> "-"]

Price(p) == 10 * p

RECURSIVE SumTotal(_, _)
SumTotal(S, c) ==
  IF S = {} THEN 0
  ELSE LET p == CHOOSE x \in S : TRUE
       IN  c[p] * Price(p) + SumTotal(S \ {p}, c)

TotalAmount(c) == SumTotal(Products, c)

RECURSIVE SumQty(_, _)
SumQty(S, c) ==
  IF S = {} THEN 0
  ELSE LET p == CHOOSE x \in S : TRUE
       IN  c[p] + SumQty(S \ {p}, c)

\* The lines of a cart: the products it holds.
Lines(c) == {p \in Products : c[p] > 0}

\* The count taken as the number of lines.
cartCount_Lines == Cardinality(Lines(cartItems))

cartCount == SumQty(Products, cartItems)

UserOf(t) == t

Req(id, kind, tok, p, q, from, capLoading, pre) ==
  [id |-> id, kind |-> kind, tok |-> tok, stage |-> "sent", status |-> "none",
   p |-> p, q |-> q, from |-> from, capLoading |-> capLoading, pre |-> pre,
   snap |-> EmptyCart, cartTag |-> "absent", total |-> 0, totalTag |-> "absent"]

\* The body of a cart response: cart is an array of lines, something that is
\* not an array, or absent; totalAmount is a number or absent.
CartTags == {"array", "notArray", "absent"}
TotalTags == {"number", "absent"}

\* The lines of the response merged into the snapshot: a line the response
\* does not hold keeps its previous quantity.
cartData_Merged(r) ==
  [p \in Products |->
     IF r.cartTag = "array" /\ r.snap[p] > 0 THEN r.snap[p] ELSE cartItems[p]]

\* response.data.cart || [], then Array.isArray(cartData) ? cartData : [].
cartData(r) == IF r.cartTag = "array" THEN r.snap ELSE EmptyCart

\* response.data.totalAmount || 0.
totalAmount(r) == IF r.totalTag = "number" THEN r.total ELSE 0

HasFree == \E i \in Slots : \A r \in net : r.id # i
FreeId == CHOOSE i \in Slots : (\A r \in net : r.id # i)
              /\ (\A j \in Slots : (\A r \in net : r.id # j) => i <= j)

Gets(n) == {r \in n : r.kind = "get"}

noAuthEndpoints == {"login", "register"}

\* The allow-list check answering "no" for every endpoint.
IsAuthEndpoint_None(kind) == FALSE

IsAuthEndpoint(kind) == kind \in noAuthEndpoints

\* ------------------------------------------------------------ cart store

\* fetchCart's guard without the in-flight check.
FetchSuppressed_NoInFlight(capAuth, capLoading) ==
  \/ ~capAuth
  \/ capLoading
  \/ now - lastFetchTime < DebounceMs

\* fetchCart's suppression guard, evaluated with the closure's auth flags
\* and the live refs.
FetchSuppressed(capAuth, capLoading) ==
  \/ ~capAuth
  \/ capLoading
  \/ isFetching
  \/ now - lastFetchTime < DebounceMs

\* fetchCart up to its await: either returns at the guard or issues the GET.
FetchCall(netBase, id, capAuth, capLoading, tok, from, op, pre) ==
  IF FetchSuppressed(capAuth, capLoading)
  THEN /\ net' = netBase
       /\ UNCHANGED <<isFetching>>
       /\ ev' = Ev(op, "suppressed", pre)
  ELSE /\ isFetching' = TRUE
       /\ net' = netBase \cup {Req(id, "get", tok, 0, 0, from, capLoading, NoPre)}
       /\ ev' = Ev(op, "issued", pre)

\* The auth-change effect of CartProvider, run after a step that set the
\* auth flags to (newAuth, newLoading).
CartEffect(netBase, id, newAuth, newLoading, tok, op, pre) ==
  IF <<newAuth, newLoading>> = <<isAuthenticated, authLoading>>
  THEN /\ net' = netBase
       /\ ev' = Ev(op, "none", pre)
       /\ UNCHANGED <<cartItems, cartTotal, cartLoading, isFetching, cartInitialized>>
  ELSE IF newAuth /\ ~newLoading /\ ~cartInitialized
  THEN /\ FetchCall(netBase, id, newAuth, newLoading, tok, "effect", op, pre)
       /\ cartLoading' = (IF FetchSuppressed(newAuth, newLoading) THEN cartLoading ELSE TRUE)
       /\ UNCHANGED <<cartItems, cartTotal, cartInitialized>>
  ELSE IF ~newAuth /\ ~newLoading
  THEN /\ cartItems' = EmptyCart
       /\ cartTotal' = 0
       /\ cartInitialized' = FALSE
       /\ net' = netBase
       /\ ev' = Ev(op, "none", pre)
       /\ UNCHANGED <<cartLoading, isFetching>>
  ELSE /\ net' = netBase
       /\ ev' = Ev(op, "none", pre)
       /\ UNCHANGED <<cartItems, cartTotal, cartLoading, isFetching, cartInitialized>>

\* ---------------------------------------------------------- HTTP wrapper

\* The interceptor's error branch without the isRefreshing check.
ResponseError_NoGuard(kind, status) ==
  /\ rejected401' = (IF status = "401" /\ ~IsAuthEndpoint(kind)
                     THEN rejected401 + 1 ELSE rejected401)
  /\ IF status = "401" /\ ~IsAuthEndpoint(kind)
     THEN /\ isRefreshing' = TRUE
          /\ token' = NoToken
          /\ removals401' = removals401 + 1
          /\ expiredToasts' = expiredToasts + 1
          /\ redirectTimers' = redirectTimers + 1
     ELSE UNCHANGED <<isRefreshing, token, removals401, expiredToasts, redirectTimers>>

\* The interceptor's error branch handling every failure like a 401.
ResponseError_AnyStatus(kind, status) ==
  /\ rejected401' = (IF status = "401" /\ ~IsAuthEndpoint(kind)
                     THEN rejected401 + 1 ELSE rejected401)
  /\ IF ~IsAuthEndpoint(kind) /\ ~isRefreshing
     THEN /\ isRefreshing' = TRUE
          /\ token' = NoToken
          /\ removals401' = removals401 + 1
          /\ expiredToasts' = expiredToasts + 1
          /\ redirectTimers' = redirectTimers + 1
     ELSE UNCHANGED <<isRefreshing, token, removals401, expiredToasts, redirectTimers>>

\* Error branch of the response interceptor of lib/axios.
ResponseError(kind, status) ==
  /\ rejected401' = (IF status = "401" /\ ~IsAuthEndpoint(kind)
                     THEN rejected401 + 1 ELSE rejected401)
  /\ IF status = "401" /\ ~IsAuthEndpoint(kind) /\ ~isRefreshing
     THEN /\ isRefreshing' = TRUE
          /\ token' = NoToken
          /\ removals401' = removals401 + 1
          /\ expiredToasts' = expiredToasts + 1
          /\ redirectTimers' = redirectTimers + 1
     ELSE UNCHANGED <<isRefreshing, token, removals401, expiredToasts, redirectTimers>>

\* --------------------------------------------------------- session store

\* checkAuthStatus without the early return for a missing token.
CheckAuthStatus_NoTokenCheck(netBase, id, tok, from, op, pre) ==
  /\ net' = netBase \cup {Req(id, "me", tok, 0, 0, from, FALSE, pre)}
  /\ ev' = Ev(op, "none", pre)
  /\ UNCHANGED <<user, isAuthenticated, authLoading, authChecked>>
  /\ UNCHANGED <<cartItems, cartTotal, cartLoading, isFetching, cartInitialized>>

\* checkAuthStatus up to its await, called with the token it reads.
CheckAuthStatus(netBase, id, tok, from, op, pre) ==
  IF tok = NoToken
  THEN /\ isAuthenticated' = FALSE
       /\ user' = NoUser
       /\ authLoading' = FALSE
       /\ authChecked' = TRUE
       /\ CartEffect(netBase, id, FALSE, FALSE, tok, op, pre)
  ELSE /\ net' = netBase \cup {Req(id, "me", tok, 0, 0, from, FALSE, pre)}
       /\ ev' = Ev(op, "none", pre)
       /\ UNCHANGED <<user, isAuthenticated, authLoading, authChecked>>
       /\ UNCHANGED <<cartItems, cartTotal, cartLoading, isFetching, cartInitialized>>

\* A protected route gated on the stored token instead of the session flags.
ProtectedRoute_ByToken ==
  IF ~authChecked THEN "checking"
  ELSE IF authLoading THEN "spinner"
  ELSE IF token # NoToken THEN "children"
  ELSE "redirect"

\* What a route wrapped in ProtectedRoute shows: nothing of the application
\* until AuthProvider has finished its first check, then the spinner, the
\* protected children or the redirect to /auth.
ProtectedRoute ==
  IF ~authChecked THEN "checking"
  ELSE IF authLoading THEN "spinner"
  ELSE IF isAuthenticated THEN "children"
  ELSE "redirect"

Init ==
  /\ token \in Tokens \cup {NoToken}
  /\ user = NoUser
  /\ isAuthenticated = FALSE
  /\ authLoading = TRUE
  /\ authChecked = FALSE
  /\ mounted = FALSE
  /\ isRefreshing = FALSE
  /\ redirectTimers = 0
  /\ removals401 = 0
  /\ expiredToasts = 0
  /\ rejected401 = 0
  /\ cartItems = EmptyCart
  /\ cartTotal = 0
  /\ cartLoading = FALSE
  /\ isFetching = FALSE
  /\ lastFetchTime = 0
  /\ cartInitialized = FALSE
  /\ backendCart \in [Products -> 0..MaxQty]
  /\ net = {}
  /\ now = StartNow
  /\ cartFault = FALSE
  /\ ops = 0
  /\ ev = Ev("init", "none", NoPre)

\* Mount effect of AuthProvider: checkAuthStatus().
Mount ==
  /\ UNCHANGED ops
  /\ ~mounted
  /\ mounted' = TRUE
  /\ CheckAuthStatus(net, FreeId, token, "mount", "Mount", NoPre)
  /\ UNCHANGED <<token, guardVars, lastFetchTime, backendCart, now, cartFault>>

\* Time passes.
Tick ==
  /\ UNCHANGED ops
  /\ now + HalfWindow <= MaxNow
  /\ now' = now + HalfWindow
  /\ ev' = Ev("Tick", "none", NoPre)
  /\ UNCHANGED <<token, authVars, mounted, guardVars, cartVars, backendCart, net, cartFault>>

\* login, up to the await of POST /auth/login (the form is offered on the
\* sign-in page, which leaves when authenticated; the button is disabled
\* while isLoading).
Login ==
  /\ UserOp
  /\ authChecked /\ ~isAuthenticated /\ ~authLoading
  /\ HasFree
  /\ authLoading' = TRUE
  /\ CartEffect(net \cup {Req(FreeId, "login", NoToken, 0, 0, "login", FALSE,
                               <<token, user, isAuthenticated>>)},
                FreeId, isAuthenticated, TRUE, token, "Login", NoPre)
  /\ UNCHANGED <<token, user, isAuthenticated, authChecked, mounted, guardVars,
                 lastFetchTime, backendCart, now, cartFault>>

\* login, after the response of POST /auth/login.
DeliverLogin ==
  \E r \in net :
    /\ UNCHANGED ops
    /\ r.kind = "login"
    /\ \/ \E t \in Tokens :                     \* 200 with a token
            /\ token' = t
            /\ CheckAuthStatus(net \ {r}, r.id, t, "login", "LoginToken", r.pre)
            /\ cartFault' = TRUE
            /\ UNCHANGED guardVars
       \/ /\ authLoading' = FALSE               \* 200 without a token
          /\ CartEffect(net \ {r}, r.id, isAuthenticated, FALSE, token, "LoginNoToken", r.pre)
          /\ UNCHANGED <<token, user, isAuthenticated, authChecked, cartFault, guardVars>>
       \/ \E status \in {"401", "err"} :         \* rejected or transport error
            /\ ResponseError(r.kind, status)
            /\ authLoading' = FALSE
            /\ CartEffect(net \ {r}, r.id, isAuthenticated, FALSE, token',
                          IF status = "401" THEN "LoginUnauthorized" ELSE "LoginRejected",
                          r.pre)
            /\ UNCHANGED <<user, isAuthenticated, authChecked, cartFault>>
    /\ UNCHANGED <<mounted, lastFetchTime, backendCart, now>>

\* checkAuthStatus whose catch does not clear isLoading.
DeliverMe_StaysLoading ==
  \E r \in net :
    /\ UNCHANGED ops
    /\ r.kind = "me"
    /\ \/ /\ user' = UserOf(r.tok)
          /\ isAuthenticated' = TRUE
          /\ authLoading' = FALSE
          /\ authChecked' = TRUE
          /\ CartEffect(net \ {r}, r.id, TRUE, FALSE, token,
                        IF r.from = "login" THEN "LoginTrue" ELSE "MeOk", r.pre)
          /\ UNCHANGED <<token, guardVars, cartFault>>
       \/ \E status \in {"401", "err"} :
            /\ ResponseError(r.kind, status)
            /\ isAuthenticated' = FALSE
            /\ user' = NoUser
            /\ authChecked' = TRUE
            /\ CartEffect(net \ {r}, r.id, FALSE, authLoading, token',
                          IF r.from = "login" THEN "LoginFalse" ELSE "MeFail", r.pre)
            /\ cartFault' = TRUE
            /\ UNCHANGED authLoading
    /\ UNCHANGED <<mounted, lastFetchTime, backendCart, now>>

\* checkAuthStatus, after the response of GET /user/me (and the rest of
\* login when login called it).
DeliverMe ==
  \E r \in net :
    /\ UNCHANGED ops
    /\ r.kind = "me"
    /\ \/ /\ user' = UserOf(r.tok)              \* 200
          /\ isAuthenticated' = TRUE
          /\ authLoading' = FALSE
          /\ authChecked' = TRUE
          /\ CartEffect(net \ {r}, r.id, TRUE, FALSE, token,
                        IF r.from = "login" THEN "LoginTrue" ELSE "MeOk", r.pre)
          /\ UNCHANGED <<token, guardVars, cartFault>>
       \/ \E status \in {"401", "err"} :
            /\ ResponseError(r.kind, status)
            /\ isAuthenticated' = FALSE
            /\ user' = NoUser
            /\ authLoading' = FALSE
            /\ authChecked' = TRUE
            /\ CartEffect(net \ {r}, r.id, FALSE, FALSE, token',
                          IF r.from = "login" THEN "LoginFalse" ELSE "MeFail", r.pre)
            /\ cartFault' = TRUE
    /\ UNCHANGED <<mounted, lastFetchTime, backendCart, now>>

\* logout without the removal of the stored token.
Logout_KeepsCredential ==
  /\ UserOp
  /\ authChecked /\ isAuthenticated
  /\ user' = NoUser
  /\ isAuthenticated' = FALSE
  /\ CartEffect(net, 0, FALSE, authLoading, token, "Logout", NoPre)
  /\ cartFault' = TRUE
  /\ UNCHANGED <<token, authLoading, authChecked, mounted, guardVars, lastFetchTime,
                 backendCart, now>>

\* AuthProvider.logout (offered by the navbar when authenticated).
Logout ==
  /\ UserOp
  /\ authChecked /\ isAuthenticated
  /\ token' = NoToken
  /\ user' = NoUser
  /\ isAuthenticated' = FALSE
  /\ CartEffect(net, 0, FALSE, authLoading, NoToken, "Logout", NoPre)
  /\ cartFault' = TRUE
  /\ UNCHANGED <<authLoading, authChecked, mounted, guardVars, lastFetchTime, backendCart, now>>

\* Profile.handleLogout (the profile page is behind ProtectedRoute).
ProfileLogout ==
  /\ UserOp
  /\ authChecked /\ isAuthenticated /\ ~authLoading
  /\ token' = NoToken
  /\ ev' = Ev("ProfileLogout", "none", NoPre)
  /\ cartFault' = TRUE
  /\ UNCHANGED <<authVars, mounted, guardVars, cartVars, backendCart, net, now>>

\* EditProfile.handleUpdateProfile, up to the await of the PUT.
UpdateProfile ==
  /\ UserOp
  /\ authChecked /\ isAuthenticated /\ ~authLoading
  /\ HasFree
  /\ net' = net \cup {Req(FreeId, "putProfile", token, 0, 0, "edit", FALSE, NoPre)}
  /\ ev' = Ev("UpdateProfile", "none", NoPre)
  /\ UNCHANGED <<token, authVars, mounted, guardVars, cartVars, backendCart, now, cartFault>>

\* EditProfile.handleUpdateProfile, after the PUT: checkAuthStatus() on success.
DeliverPutProfile ==
  \E r \in net :
    /\ UNCHANGED ops
    /\ r.kind = "putProfile"
    /\ \/ CheckAuthStatus(net \ {r}, r.id, token, "edit", "ProfileSaved", NoPre)
       \/ /\ net' = net \ {r}
          /\ ev' = Ev("ProfileFailed", "none", NoPre)
          /\ UNCHANGED <<authVars, cartItems, cartTotal, cartLoading, isFetching, cartInitialized>>
    /\ cartFault' = (cartFault \/ isAuthenticated' # isAuthenticated)
    /\ UNCHANGED <<token, mounted, guardVars, lastFetchTime, backendCart, now>>

\* A page behind ProtectedRoute reads or cancels orders through axiosInstance.
PageRequest ==
  /\ UserOp
  /\ authChecked /\ isAuthenticated /\ ~authLoading
  /\ HasFree
  /\ net' = net \cup {Req(FreeId, "page", token, 0, 0, "orders", FALSE, NoPre)}
  /\ ev' = Ev("PageRequest", "none", NoPre)
  /\ UNCHANGED <<token, authVars, mounted, guardVars, cartVars, backendCart, now, cartFault>>

\* The response of such a request: only the interceptor touches the stores.
DeliverPage ==
  \E r \in net :
    /\ UNCHANGED ops
    /\ r.kind = "page"
    /\ \/ /\ ev' = Ev("PageOk", "none", NoPre)
          /\ UNCHANGED <<token, guardVars>>
       \/ \E status \in {"401", "err"} :
            /\ ResponseError(r.kind, status)
            /\ ev' = Ev("PageFail", status, NoPre)
    /\ net' = net \ {r}
    /\ cartFault' = (cartFault \/ token' # token)
    /\ UNCHANGED <<authVars, mounted, cartVars, backendCart, now>>

\* The interceptor's timer: window.location.href = '/auth?tab=login' loads
\* the application afresh; localStorage and the backend survive.
RedirectFire ==
  /\ UNCHANGED ops
  /\ redirectTimers > 0
  /\ user' = NoUser
  /\ isAuthenticated' = FALSE
  /\ authLoading' = TRUE
  /\ authChecked' = FALSE
  /\ mounted' = FALSE
  /\ isRefreshing' = FALSE
  /\ redirectTimers' = 0
  /\ removals401' = 0
  /\ expiredToasts' = 0
  /\ rejected401' = 0
  /\ cartItems' = EmptyCart
  /\ cartTotal' = 0
  /\ cartLoading' = FALSE
  /\ isFetching' = FALSE
  /\ lastFetchTime' = 0
  /\ cartInitialized' = FALSE
  /\ net' = {}
  /\ cartFault' = FALSE
  /\ ev' = Ev("Redirect", "none", NoPre)
  /\ UNCHANGED <<token, backendCart, now>>

\* ------------------------------------------------- cart store operations

\* A cart mutation up to its first await: the auth guard, setIsLoading(true)
\* and the request with the headers of getAuthHeaders().
StartMutation(kind, p, q, op) ==
  /\ UserOp
  /\ authChecked
  /\ isAuthenticated
  /\ HasFree
  /\ cartLoading' = TRUE
  /\ net' = net \cup {Req(FreeId, kind, token, p, q, kind, authLoading, NoPre)}
  /\ ev' = Ev(op, "none", NoPre)
  /\ UNCHANGED <<token, authVars, mounted, guardVars, cartItems, cartTotal, isFetching,
                 lastFetchTime, cartInitialized, backendCart, now, cartFault>>

\* A cart operation that returns at its guard, before any request.
Returned(op) ==
  /\ UserOp
  /\ authChecked
  /\ ev' = Ev(op, "none", NoPre)
  /\ UNCHANGED <<token, authVars, mounted, guardVars, cartVars, backendCart, net, now,
                 cartFault>>

AddToCart ==
  \E p \in Products, q \in 1..MaxQty :
    IF ~isAuthenticated THEN Returned("AddNoAuth")
    ELSE StartMutation("add", p, q, "AddToCart")

RemoveFromCart ==
  \E p \in Products :
    IF ~isAuthenticated THEN Returned("RemoveNoAuth")
    ELSE StartMutation("delete", p, 0, "RemoveFromCart")

UpdateQuantity ==
  \E p \in Products, q \in 0..MaxQty :
    IF ~isAuthenticated THEN Returned("UpdateNoAuth")
    ELSE IF q < 1 THEN Returned("UpdateBelowOne")
    ELSE StartMutation("put1", p, q, "UpdateQuantity")

ClearCart ==
  IF ~isAuthenticated THEN Returned("ClearNoAuth")
  ELSE StartMutation("clear", 0, 0, "ClearCart")

\* Cart.handleCheckout up to the await of GET /cart/checkout.
Checkout ==
  /\ UserOp
  /\ authChecked /\ isAuthenticated /\ ~authLoading
  /\ cartItems # EmptyCart
  /\ token # NoToken
  /\ HasFree
  /\ net' = net \cup {Req(FreeId, "checkout", token, 0, 0, "cart", FALSE, NoPre)}
  /\ ev' = Ev("Checkout", "none", NoPre)
  /\ UNCHANGED <<token, authVars, mounted, guardVars, cartVars, backendCart, now, cartFault>>

\* A page calls fetchCart() itself (CheckoutSuccess, behind ProtectedRoute).
FetchCartPage ==
  /\ UserOp
  /\ authChecked /\ isAuthenticated /\ ~authLoading
  /\ HasFree
  /\ FetchCall(net, FreeId, isAuthenticated, authLoading, token, "page", "FetchCartPage", NoPre)
  /\ cartLoading' = (IF FetchSuppressed(isAuthenticated, authLoading) THEN cartLoading ELSE TRUE)
  /\ UNCHANGED <<token, authVars, mounted, guardVars, cartItems, cartTotal, lastFetchTime,
                 cartInitialized, backendCart, now, cartFault>>

\* ------------------------------------------------------------- backend

CartKinds == {"get", "add", "delete", "put1", "put2", "clear", "checkout"}

\* What a successful request of this kind does to the backend's cart.
Applied(r) ==
  CASE r.kind = "add"      -> [backendCart EXCEPT ![r.p] = @ + r.q]
    [] r.kind = "delete"   -> [backendCart EXCEPT ![r.p] = 0]
    [] r.kind \in {"put1", "put2"} -> [backendCart EXCEPT ![r.p] = r.q]
    [] r.kind \in {"clear", "checkout"} -> EmptyCart
    [] OTHER               -> backendCart

Acceptable(r) ==
  /\ r.tok # NoToken
  /\ r.kind = "add" => backendCart[r.p] + r.q <= MaxQty

\* The backend serves one cart request with 200 and applies it. (A request it
\* rejects changes nothing at the backend; the rejection is drawn when the
\* response is handled.)
Serve ==
  \E r \in net :
    /\ UNCHANGED ops
    /\ r.kind \in CartKinds
    /\ r.stage = "sent"
    /\ Acceptable(r)
    /\ backendCart' = Applied(r)
    /\ net' = (net \ {r}) \cup
              {[r EXCEPT !.stage = "served", !.status = "ok",
                         !.snap = IF r.kind = "get" THEN backendCart ELSE EmptyCart,
                         !.cartTag = IF r.kind = "get" THEN "array" ELSE "absent",
                         !.total = IF r.kind = "get" THEN TotalAmount(backendCart) ELSE 0,
                         !.totalTag = IF r.kind = "get" THEN "number" ELSE "absent"]}
    /\ cartFault' = (cartFault \/ r.kind \in {"clear", "checkout"})
    /\ ev' = Ev("Serve", "none", NoPre)
    /\ UNCHANGED <<token, authVars, mounted, guardVars, cartVars, now>>

\* The responses a cart request can get: 200 once served, else a rejection
\* (401 without a credential or for an expired one, or another error).
Answers(r) ==
  IF r.stage = "served" THEN {"ok"}
  ELSE IF r.tok = NoToken THEN {"401"}
  ELSE {"401", "err"}

\* ------------------------------------------- cart store, after the await

\* Whether the snapshot holds lines when a cart response arrives.
HadLines == <<NoToken, NoUser, cartItems # EmptyCart>>

\* fetchCart after the response, keeping the snapshot when the GET failed.
DeliverGet_KeepsOnFailure ==
  \E r \in net : \E status \in Answers(r) :
    /\ UNCHANGED ops
    /\ r.kind = "get"
    /\ IF status = "ok"
       THEN /\ lastFetchTime' = now
            /\ cartItems' = cartData(r)
            /\ cartTotal' = totalAmount(r)
            /\ cartInitialized' = TRUE
            /\ ev' = Ev("FetchOk", r.from, HadLines)
            /\ UNCHANGED cartFault
       ELSE /\ ev' = Ev("FetchFail", status, HadLines)
            /\ cartFault' = TRUE
            /\ UNCHANGED <<cartItems, cartTotal, lastFetchTime, cartInitialized>>
    /\ cartLoading' = FALSE
    /\ isFetching' = FALSE
    /\ net' = net \ {r}
    /\ UNCHANGED <<token, authVars, mounted, guardVars, backendCart, now>>

\* fetchCart after the response of GET /cart/get.
DeliverGet ==
  \E r \in net : \E status \in Answers(r) :
    /\ UNCHANGED ops
    /\ r.kind = "get"
    /\ IF status = "ok"
       THEN /\ lastFetchTime' = now
            /\ cartItems' = cartData(r)
            /\ cartTotal' = totalAmount(r)
            /\ cartInitialized' = TRUE
            /\ ev' = Ev("FetchOk", r.from, HadLines)
            /\ UNCHANGED cartFault
       ELSE /\ cartItems' = EmptyCart
            /\ cartTotal' = 0
            /\ ev' = Ev("FetchFail", status, HadLines)
            /\ cartFault' = TRUE
            /\ UNCHANGED <<lastFetchTime, cartInitialized>>
    /\ cartLoading' = FALSE
    /\ isFetching' = FALSE
    /\ net' = net \ {r}
    /\ UNCHANGED <<token, authVars, mounted, guardVars, backendCart, now>>

\* The rest of a mutation whose backend call succeeded: await fetchCart()
\* with the fetchCart of the render the mutation was started in.
Reconcile(r, op) ==
  /\ FetchCall(net \ {r}, r.id, TRUE, r.capLoading, token, r.kind, op, NoPre)
  /\ cartLoading' = ~FetchSuppressed(TRUE, r.capLoading)
  /\ UNCHANGED <<cartItems, cartTotal, lastFetchTime, cartInitialized>>

\* The catch of a mutation resetting the snapshot as fetchCart's catch does.
MutationFailed_Empties(r, op) ==
  /\ net' = net \ {r}
  /\ cartLoading' = FALSE
  /\ cartItems' = EmptyCart
  /\ cartTotal' = 0
  /\ ev' = Ev(op, "none", NoPre)
  /\ UNCHANGED <<isFetching, lastFetchTime, cartInitialized>>

\* The catch and finally of a mutation.
MutationFailed(r, op) ==
  /\ net' = net \ {r}
  /\ cartLoading' = FALSE
  /\ ev' = Ev(op, "none", NoPre)
  /\ UNCHANGED <<cartItems, cartTotal, isFetching, lastFetchTime, cartInitialized>>

DeliverAdd ==
  \E r \in net : \E status \in Answers(r) :
    /\ UNCHANGED ops
    /\ r.kind = "add"
    /\ IF status = "ok" THEN Reconcile(r, "AddOk") ELSE MutationFailed(r, "AddFail")
    /\ cartFault' = (cartFault \/ status # "ok")
    /\ UNCHANGED <<token, authVars, mounted, guardVars, backendCart, now>>

DeliverDelete ==
  \E r \in net : \E status \in Answers(r) :
    /\ UNCHANGED ops
    /\ r.kind = "delete"
    /\ IF status = "ok" THEN Reconcile(r, "RemoveOk") ELSE MutationFailed(r, "RemoveFail")
    /\ cartFault' = (cartFault \/ status # "ok")
    /\ UNCHANGED <<token, authVars, mounted, guardVars, backendCart, now>>

\* updateQuantity after the first PUT: on failure the second endpoint format.
DeliverPut1 ==
  \E r \in net : \E status \in Answers(r) :
    /\ UNCHANGED ops
    /\ r.kind = "put1"
    /\ IF status = "ok"
       THEN Reconcile(r, "UpdateOk")
       ELSE /\ net' = (net \ {r}) \cup
                      {Req(r.id, "put2", token, r.p, r.q, "put1", r.capLoading, NoPre)}
            /\ ev' = Ev("UpdateRetry", "none", NoPre)
            /\ UNCHANGED cartVars
    /\ cartFault' = (cartFault \/ status # "ok")
    /\ UNCHANGED <<token, authVars, mounted, guardVars, backendCart, now>>

DeliverPut2 ==
  \E r \in net : \E status \in Answers(r) :
    /\ UNCHANGED ops
    /\ r.kind = "put2"
    /\ IF status = "ok" THEN Reconcile(r, "UpdateOk") ELSE MutationFailed(r, "UpdateFail")
    /\ cartFault' = (cartFault \/ status # "ok")
    /\ UNCHANGED <<token, authVars, mounted, guardVars, backendCart, now>>

DeliverClear ==
  \E r \in net : \E status \in Answers(r) :
    /\ UNCHANGED ops
    /\ r.kind = "clear"
    /\ IF status = "ok"
       THEN /\ cartItems' = EmptyCart
            /\ cartTotal' = 0
            /\ ev' = Ev("ClearOk", "none", NoPre)
       ELSE /\ ev' = Ev("ClearFail", "none", NoPre)
            /\ UNCHANGED <<cartItems, cartTotal>>
    /\ cartLoading' = FALSE
    /\ net' = net \ {r}
    /\ cartFault' = (cartFault \/ status # "ok")
    /\ UNCHANGED <<token, authVars, mounted, guardVars, isFetching, lastFetchTime,
                   cartInitialized, backendCart, now>>

\* The paths the two route tables of the repository declare.
RoutePaths_Index ==
  {"/", "/auth", "/login", "/register", "/profile", "/profile/edit", "/products",
   "/search", "/product/:id", "/cart", "/orders", "/checkout/success", "/admin",
   "/admin/products"}

RoutePaths_Named ==
  {"/", "/auth", "/login", "/register", "/profile", "/profile/edit", "/products",
   "/search", "/product/:id", "/cart", "/orders", "/orders/:id", "/checkout-success",
   "/admin", "/admin/products", "*"}

RouteTables == {RoutePaths_Index, RoutePaths_Named}

\* Whether navigating to path under the table routes mounts CheckoutSuccess
\* (behind ProtectedRoute, which renders its children only when the session
\* is authenticated and not loading).
MountsCheckoutSuccess(routes, path) ==
  /\ path \in routes
  /\ path \in {"/checkout-success", "/checkout/success"}
  /\ ProtectedRoute = "children"

\* Cart.handleCheckout after the response: the notification, and on success
\* navigate('/checkout-success'); the page that mounts there, if any, calls
\* fetchCart() from its effect.
DeliverCheckout ==
  \E r \in net : \E status \in Answers(r) : \E routes \in RouteTables :
    /\ UNCHANGED ops
    /\ r.kind = "checkout"
    /\ cartFault' = (cartFault \/ status # "ok")
    /\ IF status = "ok" /\ MountsCheckoutSuccess(routes, Nav("CheckoutOk"))
       THEN /\ FetchCall(net \ {r}, r.id, isAuthenticated, authLoading, token, "page",
                         "CheckoutOk", NoPre)
            /\ cartLoading' = (IF FetchSuppressed(isAuthenticated, authLoading)
                               THEN cartLoading ELSE TRUE)
            /\ UNCHANGED <<cartItems, cartTotal, lastFetchTime, cartInitialized>>
       ELSE /\ net' = net \ {r}
            /\ ev' = IF status = "ok" THEN Ev("CheckoutOk", "none", NoPre)
                     ELSE Ev("CheckoutFail", status, NoPre)
            /\ UNCHANGED cartVars
    /\ UNCHANGED <<token, authVars, mounted, guardVars, backendCart, now>>

Next ==
  \/ Mount
  \/ Tick
  \/ Login
  \/ DeliverLogin
  \/ DeliverMe
  \/ Logout
  \/ ProfileLogout
  \/ UpdateProfile
  \/ DeliverPutProfile
  \/ PageRequest
  \/ DeliverPage
  \/ RedirectFire
  \/ AddToCart
  \/ RemoveFromCart
  \/ UpdateQuantity
  \/ ClearCart
  \/ Checkout
  \/ FetchCartPage
  \/ Serve
  \/ DeliverGet
  \/ DeliverAdd
  \/ DeliverDelete
  \/ DeliverPut1
  \/ DeliverPut2
  \/ DeliverClear
  \/ DeliverCheckout

Spec == Init /\ [][Next]_vars

\* ------------------------------------------------ the session store alone
\* The session store, the HTTP wrapper and the cart fetch its transitions
\* start; no cart operation is called.
NextSession ==
  \/ Mount
  \/ Login
  \/ DeliverLogin
  \/ DeliverMe
  \/ Logout
  \/ ProfileLogout
  \/ UpdateProfile
  \/ DeliverPutProfile
  \/ PageRequest
  \/ DeliverPage
  \/ RedirectFire
  \/ Serve
  \/ DeliverGet

SpecSession == Init /\ [][NextSession]_vars

\* ------------------------------------------ checkout, with fair responses
\* A session that fills its cart and checks out; every awaited request is
\* eventually answered (axios settles each promise), nothing obliges the user
\* to act.
NextCheckout ==
  \/ Mount
  \/ Tick
  \/ DeliverMe
  \/ AddToCart
  \/ Checkout
  \/ FetchCartPage
  \/ Serve
  \/ DeliverGet
  \/ DeliverAdd
  \/ DeliverCheckout

SpecCheckout ==
  /\ Init
  /\ [][NextCheckout]_vars
  /\ WF_vars(DeliverMe)
  /\ WF_vars(DeliverGet)
  /\ WF_vars(DeliverAdd)
  /\ WF_vars(DeliverCheckout)

\* ------------------------------------- fetchCart against any response body
\* An authenticated session whose last fetch succeeded a debounce window ago
\* and which has just issued the next GET /cart/get.
InitFetchCart ==
  /\ token \in Tokens
  /\ user = UserOf(token)
  /\ isAuthenticated = TRUE
  /\ authLoading = FALSE
  /\ authChecked = TRUE
  /\ mounted = TRUE
  /\ isRefreshing = FALSE
  /\ redirectTimers = 0
  /\ removals401 = 0
  /\ expiredToasts = 0
  /\ rejected401 = 0
  /\ cartItems \in [Products -> 0..MaxQty]
  /\ cartTotal = TotalAmount(cartItems)
  /\ cartLoading = TRUE
  /\ isFetching = TRUE
  /\ lastFetchTime = StartNow
  /\ cartInitialized = TRUE
  /\ backendCart \in [Products -> 0..MaxQty]
  /\ net = {Req(1, "get", token, 0, 0, "page", FALSE, NoPre)}
  /\ now = MaxNow
  /\ cartFault = FALSE
  /\ ops = 1
  /\ ev = Ev("FetchCartPage", "issued", NoPre)

\* The backend answers a cart fetch with 200 and a body of any shape.
ServeAnyShape ==
  \E r \in net :
    \E ct \in CartTags, tt \in TotalTags, c \in [Products -> 0..MaxQty],
       x \in [Products -> 0..MaxQty] :
      /\ r.kind = "get"
      /\ r.stage = "sent"
      /\ ct # "array" => c = EmptyCart
      /\ tt # "number" => x = EmptyCart
      /\ net' = (net \ {r}) \cup
                {[r EXCEPT !.stage = "served", !.status = "ok", !.snap = c,
                           !.cartTag = ct, !.total = TotalAmount(x), !.totalTag = tt]}
      /\ ev' = Ev("Serve", "none", NoPre)
      /\ UNCHANGED <<token, authVars, mounted, guardVars, cartVars, backendCart, now,
                     cartFault, ops>>

NextFetchCart ==
  \/ ServeAnyShape
  \/ DeliverGet

SpecFetchCart == InitFetchCart /\ [][NextFetchCart]_vars

TypeOK ==
  /\ token \in Tokens \cup {NoToken}
  /\ user \in Tokens \cup {NoUser}
  /\ Cardinality(net) <= MaxInFlight
  /\ now \in StartNow..MaxNow

\* ----------------------------------------------------------- properties

Quiescent == net = {}

\* C1: in an authenticated session in which only addToCart / removeFromCart /
\* updateQuantity calls touched the cart and every backend call succeeded,
\* once no request is outstanding the local snapshot equals the backend's cart.
C1_ConvergesToBackend ==
  (authChecked /\ isAuthenticated /\ Quiescent /\ ~cartFault)
    => (cartItems = backendCart /\ cartTotal = TotalAmount(backendCart))

\* C2: every addToCart whose backend add call succeeded issues the GET of the
\* reconciling fetch (the fetch is not suppressed).
C2_AddAlwaysFetches ==
  (ev.op = "AddOk") => (ev.fetch = "issued" /\ Gets(net) # {})

\* C3: at most one GET /cart/get of fetchCart is outstanding, the in-flight
\* guard is set exactly while it is, and a fetchCart call made meanwhile
\* issues nothing.
C3_SingleFlight ==
  /\ Cardinality(Gets(net)) <= 1
  /\ isFetching <=> Gets(net) # {}

C3_Witness ==
  /\ ev.op \in {"AddOk", "RemoveOk", "UpdateOk", "FetchCartPage"}
  /\ ev.fetch = "suppressed"
  /\ Cardinality(Gets(net)) = 1

\* C4: a fetchCart call made in the instant a cart fetch completed, whether
\* that fetch succeeded or failed, issues no request.
C4_DebouncedAfterCompletion ==
  [][(ev.op \in {"FetchOk", "FetchFail"} /\ now' = now) => ev'.fetch # "issued"]_vars

\* C5: whenever the session is not authenticated the cart snapshot is empty
\* with total 0.
C5_EmptyWhenAnonymous ==
  (authChecked /\ ~isAuthenticated) => (cartItems = EmptyCart /\ cartTotal = 0)

ValidationInFlight == \E r \in net : r.kind \in {"login", "me"}

\* C6: with no validation in flight, an authenticated session always has its
\* credential stored: every removal of the token also drops the session to
\* ANONYMOUS.
C6_TokenRemovalDropsSession ==
  (authChecked /\ ~ValidationInFlight /\ isAuthenticated) => token # NoToken

\* C7: a 401 answer to a cart fetch or to the checkout call removes the
\* stored credential and starts the session-expired handling.
C7_Cart401ClearsCredential ==
  (ev.op \in {"FetchFail", "CheckoutFail"} /\ ev.fetch = "401")
    => (token = NoToken /\ isRefreshing)

\* C8: however many 401 responses the wrapper handles before the redirect,
\* the credential removal, the notification and the redirect timer each
\* happen once, and the guard is held from the first of them until the redirect.
C8_ExpiryHandledOnce ==
  /\ rejected401 >= 1 =>
       (removals401 = 1 /\ expiredToasts = 1 /\ redirectTimers = 1 /\ isRefreshing)
  /\ rejected401 = 0 =>
       (removals401 = 0 /\ expiredToasts = 0 /\ redirectTimers = 0 /\ ~isRefreshing)

C8_Witness ==
  /\ rejected401 >= 2
  /\ removals401 = 1
  /\ redirectTimers = 1
  /\ token = NoToken

LoginFailOps == {"LoginFalse", "LoginNoToken", "LoginRejected", "LoginUnauthorized"}

\* C9: a login that resolves false leaves the stored credential, the Identity
\* and the authenticated flag as they were when login was called.
C9_FailedLoginChangesNothing ==
  (ev.op \in LoginFailOps) => (<<token, user, isAuthenticated>> = ev.pre)

\* C10: the validation request of login is issued with the credential already
\* stored, and login resolves true only with the credential stored, the
\* session AUTHENTICATED and the Identity of that credential.
C10_LoginTrueState ==
  /\ ev.op = "LoginToken" =>
       (token # NoToken /\ \E r \in net : r.kind = "me" /\ r.from = "login" /\ r.tok = token)
  /\ ev.op = "LoginTrue" =>
       (token # NoToken /\ isAuthenticated /\ user = UserOf(token))

\* C11: when login, called from an ANONYMOUS session without a stored
\* credential, is answered 401 by the login endpoint, it resolves false and the
\* step leaves the stored credential, the Identity and the authenticated flag
\* as they are (unset and ANONYMOUS when nothing else changed them since the
\* call), and the wrapper's session-expired handling untouched (no removal, no
\* notification, no redirect timer, isRefreshing as it was).
C11_Login401NoExpiryHandling ==
  [][(ev'.op = "LoginUnauthorized" /\ ev'.pre = NoPre)
       => /\ ev'.op \in LoginFailOps
          /\ token' = token
          /\ user' = user
          /\ isAuthenticated' = isAuthenticated
          /\ ~authLoading'
          /\ UNCHANGED guardVars]_vars

C11_Witness ==
  /\ ev.op = "LoginUnauthorized"
  /\ ev.pre = NoPre
  /\ token = NoToken
  /\ ~isAuthenticated
  /\ ~isRefreshing
  /\ redirectTimers = 0

\* C12: logout completes in one step without issuing a request: after it the
\* token is absent, user is null, isAuthenticated is false and a navigation to
\* '/' has been emitted, whatever the state it was called in.
C12_LogoutSynchronous ==
  [][(ev'.op = "Logout")
       => /\ token' = NoToken
          /\ user' = NoUser
          /\ ~isAuthenticated'
          /\ net' = net
          /\ ev'.nav = "/"]_vars

C12_Witness ==
  /\ ev.op = "Logout"
  /\ token = NoToken
  /\ user = NoUser
  /\ ~isAuthenticated
  /\ net # {}

Mes(n) == {r \in n : r.kind = "me"}

\* C13: while a GET /user/me of checkAuthStatus is unresolved, the consumers of
\* the auth context (rendered once authChecked) observe isLoading = true.
C13_LoadingWhileValidating ==
  (authChecked /\ Mes(net) # {}) => authLoading

\* The steps that call checkAuthStatus: the mount effect, login after storing
\* the token, the profile form after a successful save.
CheckOps == {"Mount", "LoginToken", "ProfileSaved"}

\* C14: a checkAuthStatus call that finds no stored credential issues no
\* request and sets the session ANONYMOUS with loading cleared; one that finds
\* a credential issues exactly one GET /user/me, carrying that credential.
C14_ValidatesOnlyWithCredential ==
  [][(ev'.op \in CheckOps)
       => IF token' = NoToken
          THEN /\ net' \ net = {}
               /\ ~isAuthenticated'
               /\ user' = NoUser
               /\ ~authLoading'
               /\ authChecked'
          ELSE /\ Cardinality(net' \ net) = 1
               /\ \A r \in net' \ net : r.kind = "me" /\ r.tok = token']_vars

C14_Witness ==
  /\ ev.op \in CheckOps
  /\ token = NoToken
  /\ authChecked
  /\ ~isAuthenticated
  /\ ~authLoading
  /\ Mes(net) = {}

\* The steps on which the validation request of checkAuthStatus failed.
ValidationFailOps == {"MeFail", "LoginFalse"}

\* C15: when the validation request fails, the session becomes ANONYMOUS; the
\* stored credential is left as it is unless the answer was a 401, and a 401
\* met outside a running session-expired handling removes it.
C15_FailClosedKeepsCredential ==
  [][(ev'.op \in ValidationFailOps)
       => /\ ~isAuthenticated'
          /\ user' = NoUser
          /\ rejected401' = rejected401 => token' = token
          /\ (rejected401' # rejected401 /\ ~isRefreshing)
               => (token' = NoToken /\ isRefreshing')]_vars

C15_Witness ==
  /\ ev.op \in ValidationFailOps
  /\ rejected401 = 0
  /\ token # NoToken
  /\ ~isAuthenticated
  /\ user = NoUser

\* The cart operations returning at their authentication guard.
NoAuthOps == {"AddNoAuth", "RemoveNoAuth", "UpdateNoAuth", "ClearNoAuth"}

\* C16: a cart operation called while the session is not authenticated issues
\* no request, leaves cartItems and cartTotal unchanged and raises a
\* notification.
C16_UnauthenticatedNoOpNotifies ==
  [][(ev'.op \in NoAuthOps)
       => /\ net' = net
          /\ cartItems' = cartItems
          /\ cartTotal' = cartTotal
          /\ ev'.toast # "none"]_vars

\* C17: updateQuantity(productId, q) with q < 1, called by an authenticated
\* user, issues the remove request that removeFromCart(productId) issues.
C17_BelowOneDelegatesToRemove ==
  [][(ev'.op = "UpdateBelowOne")
       => \E r \in net' \ net : r.kind = "delete"]_vars

\* C18: when the primary update call of updateQuantity(productId, q), q >= 1,
\* fails, the next request of the operation is the remove call for productId
\* (to be followed by the add call with q).
C18_FallbackRemoveThenAdd ==
  [][(ev'.op = "UpdateRetry")
       => \E r \in net' \ net : r.kind = "delete"]_vars

\* C19: when the GET of fetchCart fails, for whatever reason, the snapshot
\* becomes empty with total 0 whatever it held, and the in-flight guard and
\* the loading flag are released.
C19_FailEmpty ==
  (ev.op = "FetchFail")
    => (cartItems = EmptyCart /\ cartTotal = 0 /\ ~isFetching /\ ~cartLoading)

C19_Witness ==
  /\ ev.op = "FetchFail"
  /\ ev.pre[3]
  /\ cartItems = EmptyCart
  /\ cartTotal = 0
  /\ ~isFetching

\* C20: after a successful fetchCart the snapshot is the response and nothing
\* else: cartItems is response.cart (empty when absent or not an array),
\* cartTotal is response.totalAmount (0 when absent) and cartCount is the sum
\* of the quantities of the response's lines.
C20_ReplaceNotMerge ==
  [][\A r \in net :
       (r.kind = "get" /\ r \notin net' /\ ev'.op = "FetchOk")
         => /\ cartItems' = (IF r.cartTag = "array" THEN r.snap ELSE EmptyCart)
            /\ cartTotal' = (IF r.totalTag = "number" THEN r.total ELSE 0)
            /\ cartCount' = (IF r.cartTag = "array" THEN SumQty(Products, r.snap) ELSE 0)]_vars

C20_Witness ==
  /\ ev.op = "FetchOk"
  /\ ev.pre[3]
  /\ cartItems = [p \in Products |-> IF p = 1 THEN 2 ELSE 0]
  /\ cartTotal = 20
  /\ cartCount = 2

\* The steps on which a cart mutation ends in its catch.
MutationFailOps == {"AddFail", "RemoveFail", "UpdateFail", "ClearFail"}

\* C21: the step on which the backend call of a cart mutation fails leaves
\* cartItems and cartTotal as they are and issues no request; the fallback of
\* updateQuantity after its first call failed leaves them as they are too.
C21_FailedMutationKeepsStore ==
  [][/\ (ev'.op \in MutationFailOps)
          => (cartItems' = cartItems /\ cartTotal' = cartTotal /\ net' \subseteq net)
     /\ (ev'.op = "UpdateRetry")
          => (cartItems' = cartItems /\ cartTotal' = cartTotal)]_vars

C21_Witness ==
  /\ ev.op \in MutationFailOps
  /\ cartItems # EmptyCart
  /\ cartTotal = TotalAmount(cartItems)

\* The steps on which the backend call (the last one) of a cart mutation succeeded.
MutationOkOps == {"AddOk", "RemoveOk", "UpdateOk", "ClearOk"}

\* C22: a cart mutation that reached the backend raises a success
\* notification when its call succeeded and a failure notification when it
\* failed.
C22_NotifiesBothOutcomes ==
  /\ (ev.op \in MutationOkOps) => ev.toast = "success"
  /\ (ev.op \in MutationFailOps) => ev.toast = "error"

\* C23: clearCart issues one remove request per line and never a bulk-clear
\* request; when it succeeded the local lines are empty, the local total is 0
\* and no cart fetch was issued.
C23_ClearLineByLine ==
  /\ \A r \in net : r.kind # "clear"
  /\ (ev.op = "ClearOk")
       => (cartItems = EmptyCart /\ cartTotal = 0 /\ ev.fetch = "none")

RECURSIVE QtyUpTo(_, _)
QtyUpTo(n, c) == IF n = 0 THEN 0 ELSE c[n] + QtyUpTo(n - 1, c)

\* C24: cartCount is the sum of the quantities of the lines of cartItems: 0
\* for an empty cart, and more than the number of lines as soon as one line
\* has a quantity above 1.
C24_CountIsSumOfQuantities ==
  /\ cartCount = QtyUpTo(NumProducts, cartItems)
  /\ cartItems = EmptyCart => cartCount = 0
  /\ (\E p \in Products : cartItems[p] > 1) => cartCount > Cardinality(Lines(cartItems))

C24_Witness ==
  /\ ev.op = "FetchOk"
  /\ \E p \in Products : cartItems[p] = 2
  /\ cartCount >= 2
  /\ cartCount > Cardinality(Lines(cartItems))

\* C25: a ProtectedRoute shows its children only when isLoading is false and
\* isAuthenticated is true; it shows the spinner while isLoading is true and
\* redirects to /auth when not authenticated, and before the first auth check
\* has resolved nothing of the application is rendered.
C25_FailClosedGating ==
  /\ ProtectedRoute = "children" => (authChecked /\ ~authLoading /\ isAuthenticated)
  /\ (authChecked /\ authLoading) => ProtectedRoute = "spinner"
  /\ (authChecked /\ ~authLoading /\ ~isAuthenticated) => ProtectedRoute = "redirect"
  /\ ~authChecked => ProtectedRoute = "checking"

C25_Witness ==
  /\ ev.op = "MeFail"
  /\ token # NoToken
  /\ ProtectedRoute = "redirect"

\* The steps on which the validation request of checkAuthStatus succeeded.
ValidationOkOps == {"MeOk", "LoginTrue"}

\* Once no login and no validation request is outstanding, the session is
\* not loading.
NoLoadingWhenResolved ==
  (mounted /\ ~ValidationInFlight) => (authChecked /\ ~authLoading)

CartOpInFlight ==
  \E r \in net : r.kind \in {"get", "add", "delete", "put1", "put2", "clear"}

\* C27: the cart store's isLoading is true exactly while a cart fetch or a
\* cart mutation is suspended on a backend call, overlapping operations
\* included.
C27_LoadingWhileSuspended ==
  cartLoading <=> CartOpInFlight

\* C28: the response of a validation request that was in flight when logout
\* ran (it arrives as the next step) does not set the session back to
\* AUTHENTICATED: the session stays ANONYMOUS with no Identity and no stored
\* credential.
C28_LogoutIsFinal ==
  [][(ev.op = "Logout" /\ ev'.op \in ValidationOkOps \cup ValidationFailOps)
       => (~isAuthenticated' /\ user' = NoUser /\ token' = NoToken)]_vars

\* C29: every step that takes the session to AUTHENTICATED issues a cart
\* fetch (GET /cart/get) for the new session: neither cartInitializedRef nor
\* the in-flight flag nor the debounce suppresses it.
C29_AuthenticatedFetches ==
  [][(~isAuthenticated /\ isAuthenticated') => ev'.fetch = "issued"]_vars

\* C30: the checkout request is issued only when the local cart holds lines
\* and a credential is stored; a successful checkout reaches the
\* checkout-success page, where a cart fetch is issued; and the cart store
\* then eventually shows the backend's post-checkout cart.
C30_CheckoutRefreshesCart ==
  /\ [][\A r \in net' \ net :
         (r.kind = "checkout" /\ r.stage = "sent")
           => (cartItems # EmptyCart /\ token # NoToken /\ r.tok = token)]_vars
  /\ [][(ev'.op = "CheckoutOk") => ev'.fetch = "issued"]_vars
  /\ ((ev.op = "CheckoutOk") ~> (cartItems = backendCart))

====
